---- MODULE Spec2Model ----
(***************************************************************************)
(* A model of nataili's ModelManager (model_manager/modelmanager.py) and   *)
(* of BLIPModelManager (model_manager/blip.py): the catalogs, the          *)
(* availability and taint lists, the credential, the registry of loaded    *)
(* models, and the file system the manager reads and writes.               *)
(*                                                                         *)
(* One step of a behaviour is one whole call of a public method (or one    *)
(* change of the disk by somebody else).  `ret` records which call the     *)
(* last step was, how it ended (the value returned, or the name of the     *)
(* exception that left it) and which URLs it requested.                    *)
(***************************************************************************)
EXTENDS Integers, Sequences, FiniteSets, TLC

VARIABLES
    models,                 \* self.models: the model catalog (ordered dict)
    dependencies,           \* self.dependencies: the dependency catalog
    available_models,       \* self.available_models: a list of names
    tainted_models,         \* self.tainted_models: a list of names
    available_dependencies, \* self.available_dependencies: a list of names
    loaded_models,          \* self.loaded_models: an ordered dict
    hf_auth,                \* self.hf_auth: None or a dict
    environ,                \* os.environ["HUGGING_FACE_HUB_TOKEN"]
    model_base_path,        \* self.model_base_path
    cwd,                    \* the process's working directory
    fs,                     \* the file system: absolute path -> node
    ret                     \* the last call and its outcome

vars == <<models, dependencies, available_models, tainted_models,
          available_dependencies, loaded_models, hf_auth, environ,
          model_base_path, cwd, fs, ret>>

(***************************************************************************)
(* Bounds of the model.                                                    *)
(***************************************************************************)
\* taint_model is not offered once tainted_models holds this many names
MaxTaint == 2
\* the longest file content drawn when validation is checked on its own
MaxLen == 2

(***************************************************************************)
(* Python values.                                                          *)
(***************************************************************************)
\* a dict with the keys of ks taken from the record r
Dict(r, ks) == [k \in ks |-> r[k]]
EmptyDict == [k \in {} |-> ""]
\* self.hf_auth is None, or a dict
None == [none |-> TRUE, d |-> EmptyDict]
Some(d) == [none |-> FALSE, d |-> d]
\* Python's truth value of an Optional[dict]: None and {} are false
Truthy(a) == ~a.none /\ DOMAIN a.d # {}
\* an environment variable that is not set
Unset == "<unset>"
\* a local variable that was never assigned
UnboundStr == "<unbound>"
UnboundPath == <<"<unbound>">>

RECURSIVE SeqToSet(_)
SeqToSet(s) == IF s = <<>> THEN {} ELSE {Head(s)} \cup SeqToSet(Tail(s))
InList(x, s) == \E i \in 1..Len(s) : s[i] = x
\* list.remove(x): removes the first occurrence
RECURSIVE ListRemove(_, _)
ListRemove(s, x) ==
    IF s = <<>> THEN <<>>
    ELSE IF Head(s) = x THEN Tail(s)
    ELSE <<Head(s)>> \o ListRemove(Tail(s), x)
Count(s, x) == Cardinality({i \in 1..Len(s) : s[i] = x})

(***************************************************************************)
(* Paths and the file system.  A path is a sequence of components; an      *)
(* absolute path starts with "/".  fs maps the absolute paths that exist   *)
(* to a node, a directory or a file with its content (a sequence of bytes).*)
(***************************************************************************)
IsAbs(p) == Len(p) > 0 /\ p[1] = "/"
\* os.path.join(a, b): an absolute b discards a
Join(a, b) == IF IsAbs(b) THEN b ELSE a \o b
\* how the operating system resolves a path: relative to the working directory
AbsPath(p) == IF IsAbs(p) THEN p ELSE cwd \o p
\* os.path.dirname
DirName(p) == SubSeq(p, 1, Len(p) - 1)
IsPrefix(p, q) == Len(p) <= Len(q) /\ SubSeq(q, 1, Len(p)) = p

Dir == [kind |-> "dir", data |-> <<>>, target |-> <<>>]
File(c) == [kind |-> "file", data |-> c, target |-> <<>>]
Ok(f) == [fs |-> f, exc |-> "None"]
Raise(f, e) == [fs |-> f, exc |-> e]
\* the one value of a set {e(v) : v \in {x}}: e with the local variable v
\* assigned x
The(S) == CHOOSE r \in S : TRUE

\* a symbolic link holds the absolute path it points to
Link(target) == [kind |-> "link", data |-> <<>>, target |-> target]
\* the path a system call works on: a link as the last component is followed
\* (once: a link to a link counts as dangling)
Follow(f, p) ==
    LET a == AbsPath(p)
    IN  IF a \in DOMAIN f /\ f[a].kind = "link" THEN f[a].target ELSE a

\* os.path.exists: false for a dangling link
PathExists(f, p) == Follow(f, p) \in DOMAIN f /\ f[Follow(f, p)].kind # "link"
IsDir(f, p) == PathExists(f, p) /\ f[Follow(f, p)].kind = "dir"
IsFile(f, p) == PathExists(f, p) /\ f[Follow(f, p)].kind = "file"
\* what reading the file at p returns
ReadFile(f, p) == f[Follow(f, p)].data

\* os.makedirs(p, exist_ok=True)
MakeDirs(f, p) ==
    LET a == AbsPath(p)
        pre == {SubSeq(a, 1, n) : n \in 1..Len(a)}
    IN  IF \E q \in pre : q \in DOMAIN f /\ f[q].kind # "dir"
        THEN Raise(f, "FileExistsError")
        ELSE Ok([q \in DOMAIN f \cup pre |-> IF q \in DOMAIN f THEN f[q] ELSE Dir])

\* open(p, "w") / open(p, "wb") followed by writing c
WriteFile(f, p, c) ==
    LET At(a) ==
            IF ~IsDir(f, DirName(a)) THEN Raise(f, "FileNotFoundError")
            ELSE IF IsDir(f, a) THEN Raise(f, "IsADirectoryError")
            ELSE Ok([q \in DOMAIN f \cup {a} |-> IF q = a THEN File(c) ELSE f[q]])
    IN  The({At(a) : a \in {Follow(f, p)}})

\* os.remove(p)
Remove(f, p) ==
    LET a == AbsPath(p)
    IN  IF a \notin DOMAIN f THEN Raise(f, "FileNotFoundError")
        ELSE IF f[a].kind = "dir" THEN Raise(f, "IsADirectoryError")
        ELSE Ok([q \in DOMAIN f \ {a} |-> f[q]])

\* shutil.rmtree(p)
RmTree(f, p) ==
    LET a == AbsPath(p)
    IN  IF a \notin DOMAIN f THEN Raise(f, "FileNotFoundError")
        ELSE IF f[a].kind # "dir" THEN Raise(f, "NotADirectoryError")
        ELSE Ok([q \in {r \in DOMAIN f : ~IsPrefix(a, r)} |-> f[q]])

\* the tree under src, renamed to dst
Renamed(f, src, dst) ==
    LET moved == {q \in DOMAIN f : IsPrefix(src, q)}
        to(q) == dst \o SubSeq(q, Len(src) + 1, Len(q))
        kept == DOMAIN f \ moved
    IN  [q \in kept \cup {to(r) : r \in moved} |->
            IF q \in kept THEN f[q]
            ELSE f[CHOOSE r \in moved : to(r) = q]]

\* shutil.move(src, dst): into dst when dst is a directory, else renamed to
\* dst; a directory moved to a place whose parent is missing is copied there,
\* parents included
Move(f, src, dst) ==
    LET s == AbsPath(src)
        d == AbsPath(dst)
        into == d \o <<s[Len(s)]>>
        Made(up) == IF up.exc # "None" THEN up ELSE Ok(Renamed(up.fs, s, d))
    IN  IF s \notin DOMAIN f THEN Raise(f, "FileNotFoundError")
        ELSE IF IsDir(f, d)
        THEN IF PathExists(f, into) THEN Raise(f, "shutil.Error")
             ELSE Ok(Renamed(f, s, into))
        ELSE IF d \in DOMAIN f /\ f[s].kind = "dir" THEN Raise(f, "FileExistsError")
        ELSE IF IsDir(f, DirName(d))
        THEN Ok(Renamed([q \in DOMAIN f \ {d} |-> f[q]], s, d))
        ELSE IF f[s].kind # "dir" THEN Raise(f, "FileNotFoundError")
        ELSE The({Made(up) : up \in {MakeDirs(f, DirName(d))}})

(***************************************************************************)
(* hashlib.md5 over the chunks read from the file, and its hexdigest.      *)
(* The digest is a small one (one hex digit), so that two different        *)
(* contents can share a digest, as they can with MD5.                      *)
(***************************************************************************)
\* file_to_check.read(8192)
ChunkSize == 8192
DigestMod == 16
Md5Init == 7
\* file_hash.update(chunk)
RECURSIVE Md5Update(_, _)
Md5Update(h, chunk) ==
    IF chunk = <<>> THEN h
    ELSE Md5Update((5 * h + Head(chunk) + 1) % DigestMod, Tail(chunk))
HexDigits == <<"0", "1", "2", "3", "4", "5", "6", "7",
               "8", "9", "a", "b", "c", "d", "e", "f">>
\* file_hash.hexdigest(): lower-case hexadecimal
HexDigest(h) == HexDigits[h + 1]
\* while chunk := file_to_check.read(8192): file_hash.update(chunk)
RECURSIVE Md5Chunks(_, _)
Md5Chunks(h, rest) ==
    IF rest = <<>> THEN h
    ELSE LET n == IF Len(rest) < ChunkSize THEN Len(rest) ELSE ChunkSize
         IN  Md5Chunks(Md5Update(h, SubSeq(rest, 1, n)),
                       SubSeq(rest, n + 1, Len(rest)))
FileDigest(content) == HexDigest(Md5Chunks(Md5Init, content))

(***************************************************************************)
(* The catalogs.  A catalog is an ordered dict: a sequence of entries,     *)
(* each with its name (the key), its type, config.files and                *)
(* config.download.  A file entry and a download step are dicts: the keys  *)
(* a dict has are its DOMAIN.                                              *)
(***************************************************************************)
Keys(cat) == [i \in 1..Len(cat) |-> cat[i].name]
Has(cat, name) == \E i \in 1..Len(cat) : cat[i].name = name
IndexOf(cat, name) == CHOOSE i \in 1..Len(cat) : cat[i].name = name
Get(cat, name) == cat[IndexOf(cat, name)]

\* what a lookup gives: the entry returned, None returned, or the exception
Returned(entry) == [res |-> "entry", entry |-> entry]
ReturnedNone == [res |-> "None", entry |-> None]
Raised(e) == [res |-> e, entry |-> None]
\* get_model: self.models.get(model_name)
get_model(cat, model_name) ==
    IF Has(cat, model_name) THEN Returned(Get(cat, model_name)) ELSE ReturnedNone
\* get_dependency: self.dependencies[dependency_name]
get_dependency(cat, dependency_name) ==
    IF Has(cat, dependency_name) THEN Returned(Get(cat, dependency_name))
    ELSE Raised("KeyError")

\* get_model_files; the caller has checked that the name is a key
get_model_files(cat, model_name) ==
    IF Get(cat, model_name).type = "diffusers" THEN <<>>
    ELSE Get(cat, model_name).files
get_dependency_files(dependency_name) == Get(dependencies, dependency_name).files
get_model_download(cat, model_name) == Get(cat, model_name).download
get_dependency_download(dependency_name) == Get(dependencies, dependency_name).download

\* check_file_available
check_file_available(f, file_path) == PathExists(f, Join(model_base_path, file_path))

\* a check_available that looks at the first file only
check_available_First(f, files) ==
    files = <<>> \/ check_file_available(f, files[1].path)
\* check_available
check_available(f, files) ==
    \A i \in 1..Len(files) : check_file_available(f, files[i].path)

(***************************************************************************)
(* init                                                                    *)
(***************************************************************************)
\* the lists init() computes from the disk
ScanDependencies(f) ==
    SelectSeq(Keys(dependencies),
              LAMBDA d : check_available(f, get_dependency_files(d)))
\* a init() that appends to self.available_models instead of replacing it
ScanModels_Appending(cat, f) ==
    available_models \o
    SelectSeq(Keys(cat), LAMBDA m : check_available(f, get_model_files(cat, m)))
ScanModels(cat, f) ==
    SelectSeq(Keys(cat), LAMBDA m : check_available(f, get_model_files(cat, m)))

\* the check of self.hf_auth that ends init(): "True", or the exception raised
InitResult(auth) ==
    IF auth.none THEN "True"
    ELSE IF "username" \notin DOMAIN auth.d /\ "password" \notin DOMAIN auth.d
    THEN "ValueError"
    ELSE IF "username" \notin DOMAIN auth.d THEN "KeyError"
    ELSE IF auth.d["username"] = "" THEN "ValueError"
    ELSE IF "password" \notin DOMAIN auth.d THEN "KeyError"
    ELSE IF auth.d["password"] = "" THEN "ValueError"
    ELSE "True"

\* the record of a call: the method, the name it was given, the value it
\* returned or the exception that left it, the URLs it requested, its other
\* arguments, and the call before it
Called(op, arg, res, fetched) ==
    [op |-> op, arg |-> arg, res |-> res, fetched |-> fetched, args |-> None,
     prev |-> ret.op]

init ==
    /\ available_dependencies' = ScanDependencies(fs)
    /\ available_models' = ScanModels(models, fs)
    /\ ret' = Called("init", "", InitResult(hf_auth), {})
    /\ UNCHANGED <<models, dependencies, tainted_models, loaded_models, hf_auth,
                   environ, model_base_path, cwd, fs>>

get_model_call(model_name) ==
    /\ ret' = [Called("get_model", model_name, get_model(models, model_name).res, {})
                  EXCEPT !.args = get_model(models, model_name).entry]
    /\ UNCHANGED <<models, dependencies, available_models, tainted_models,
                   available_dependencies, loaded_models, hf_auth, environ,
                   model_base_path, cwd, fs>>

get_dependency_call(dependency_name) ==
    /\ ret' = [Called("get_dependency", dependency_name,
                      get_dependency(dependencies, dependency_name).res, {})
                  EXCEPT !.args = get_dependency(dependencies, dependency_name).entry]
    /\ UNCHANGED <<models, dependencies, available_models, tainted_models,
                   available_dependencies, loaded_models, hf_auth, environ,
                   model_base_path, cwd, fs>>

(***************************************************************************)
(* taint_model                                                             *)
(***************************************************************************)
\* the two lists after taint_model(model_name)
Tainted(avail, taint, model_name) ==
    IF InList(model_name, avail)
    THEN [avail |-> ListRemove(avail, model_name),
          taint |-> Append(taint, model_name)]
    ELSE [avail |-> avail, taint |-> taint]

\* a taint_model that also drops the tainted model from the registry
taint_model_Unloading(model_name) ==
    /\ Len(tainted_models) < MaxTaint
    /\ LET t == Tainted(available_models, tainted_models, model_name)
       IN  /\ available_models' = t.avail
           /\ tainted_models' = t.taint
    /\ loaded_models' = SelectSeq(loaded_models, LAMBDA e : e.name # model_name)
    /\ ret' = Called("taint_model", model_name, "None", {})
    /\ UNCHANGED <<models, dependencies, available_dependencies,
                   hf_auth, environ, model_base_path, cwd, fs>>
taint_model(model_name) ==
    /\ Len(tainted_models) < MaxTaint
    /\ LET t == Tainted(available_models, tainted_models, model_name)
       IN  /\ available_models' = t.avail
           /\ tainted_models' = t.taint
    /\ ret' = Called("taint_model", model_name, "None", {})
    /\ UNCHANGED <<models, dependencies, available_dependencies, loaded_models,
                   hf_auth, environ, model_base_path, cwd, fs>>

(***************************************************************************)
(* validate_file, validate_model: "True", "False" or the exception raised  *)
(***************************************************************************)
\* validate_file opens file_details["path"] as it stands in the catalog
validate_file(f, file_details) ==
    IF "md5sum" \in DOMAIN file_details
    THEN LET file_name == file_details.path
         IN  IF ~PathExists(f, file_name) THEN "FileNotFoundError"
             ELSE IF IsDir(f, file_name) THEN "IsADirectoryError"
             ELSE IF file_details.md5sum # FileDigest(ReadFile(f, file_name))
             THEN "False"
             ELSE "True"
    ELSE "True"

RECURSIVE ValidateFrom(_, _, _)
ValidateFrom(f, files, i) ==
    LET Validated(v) == IF v # "True" THEN v ELSE ValidateFrom(f, files, i + 1)
    IN  IF i > Len(files) THEN "True"
        ELSE IF ~check_file_available(f, files[i].path) THEN "False"
        ELSE The({Validated(v) : v \in {validate_file(f, files[i])}})

validate_model(cat, f, model_name) == ValidateFrom(f, get_model_files(cat, model_name), 1)

(***************************************************************************)
(* The outside world during one call: what the remote answers to each      *)
(* step's request.  err is "None" when the whole body arrives;             *)
(* "ConnectionError" is raised by requests.get before the file is opened;  *)
(* any other error is raised after `body` was written.  perm says whether  *)
(* the process may delete what a post-process step names.                  *)
(***************************************************************************)
Outcome(err, body) == [err |-> err, body |-> body, perm |-> TRUE]

\* a URL, with the credentials str.format put into it
Url(tmpl, username, password) == [tmpl |-> tmpl, user |-> username, pass |-> password]
UnboundUrl == Url(UnboundStr, "", "")

\* download_file: makes the directory, requests the URL, writes the body
download_file(f, url, file_path, out) ==
    LET path == Join(model_base_path, file_path)
        Written(w) ==
            IF w.exc # "None" THEN w
            ELSE IF out.err # "None" THEN Raise(w.fs, out.err)
            ELSE w
        Made(m) ==
            IF m.exc # "None" THEN m
            ELSE IF out.err = "ConnectionError" THEN Raise(m.fs, out.err)
            ELSE The({Written(w) : w \in {WriteFile(m.fs, path, out.body)}})
    IN  The({Made(m) : m \in {MakeDirs(f, DirName(path))}})

(***************************************************************************)
(* download_model.  The loop's state: the disk, the catalog (a post-process*)
(* step rewrites its own entry), the locals download_url, download_name    *)
(* and download_path, which keep their value from one step to the next,    *)
(* the exception that ended the loop, and the URLs requested.              *)
(***************************************************************************)
LoopStart(f, cat) ==
    [fs |-> f, cat |-> cat, url |-> UnboundUrl, dname |-> UnboundStr,
     dpath |-> UnboundPath, exc |-> "None", fetched |-> {}]

Failed(st, e) == [st EXCEPT !.exc = e]
WithFs(st, r) == The({[st EXCEPT !.fs = v.fs, !.exc = v.exc] : v \in {r}})

\* lines 227-231: the step's file_path, before it is joined to the base path
StepFilePath(d, files, i) ==
    IF "file_path" \in DOMAIN d
    THEN IF "file_name" \in DOMAIN d
         THEN [exc |-> "None", path |-> d.file_path \o <<d.file_name>>]
         ELSE [exc |-> "KeyError", path |-> UnboundPath]
    ELSE IF i > Len(files) THEN [exc |-> "IndexError", path |-> UnboundPath]
    ELSE [exc |-> "None", path |-> files[i].path]

\* lines 234-239: download_url, with the credentials when the step asks for them
StepUrl(d, st, auth) ==
    IF "file_url" \notin DOMAIN d THEN [exc |-> "None", url |-> st.url]
    ELSE IF "hf_auth" \notin DOMAIN d
    THEN [exc |-> "None", url |-> Url(d.file_url, "", "")]
    ELSE IF auth.none THEN [exc |-> "TypeError", url |-> st.url]
    ELSE IF "username" \notin DOMAIN auth.d \/ "password" \notin DOMAIN auth.d
    THEN [exc |-> "KeyError", url |-> st.url]
    ELSE [exc |-> "None",
          url |-> Url(d.file_url, auth.d["username"], auth.d["password"])]

\* lines 234-244: the three locals after the step's assignments
StepLocals(d, st, auth) ==
    LET u == StepUrl(d, st, auth)
    IN  [st EXCEPT
            !.exc = u.exc,
            !.url = u.url,
            !.dname = IF "file_name" \in DOMAIN d THEN d.file_name ELSE @,
            !.dpath = IF "file_path" \in DOMAIN d
                      THEN Join(model_base_path, d.file_path) ELSE @]

\* lines 254-261: a file_content step
StepFileContent(d, st) ==
    LET Made(m) ==
            IF m.exc # "None" THEN WithFs(st, m)
            ELSE WithFs(st, WriteFile(m.fs, Join(st.dpath, <<st.dname>>),
                                      d.file_content))
    IN  IF st.dpath = UnboundPath \/ st.dname = UnboundStr
        THEN Failed(st, "UnboundLocalError")
        ELSE The({Made(m) : m \in {MakeDirs(st.fs, st.dpath)}})

\* lines 262-269: a symlink step
StepSymlink(d, st) ==
    LET link == AbsPath(Join(st.dpath, <<st.dname>>))
        target == AbsPath(Join(model_base_path, d.symlink))
        Made(m) ==
            IF m.exc # "None" THEN WithFs(st, m)
            ELSE IF link \in DOMAIN m.fs THEN WithFs(st, Raise(m.fs, "FileExistsError"))
            ELSE WithFs(st, Ok([q \in DOMAIN m.fs \cup {link} |->
                                   IF q = link THEN Link(target) ELSE m.fs[q]]))
    IN  IF st.dpath = UnboundPath \/ st.dname = UnboundStr
        THEN Failed(st, "UnboundLocalError")
        ELSE The({Made(m) : m \in {MakeDirs(st.fs, st.dpath)}})

\* lines 275-288: the post-process deletions of a git step; each one rewrites
\* its "delete" path in the catalog entry itself
RECURSIVE PostProcess(_, _, _, _, _)
PostProcess(st, mi, i, k, out) ==
    LET d == st.cat[mi].download[i]
    IN  IF st.exc # "None" \/ k > Len(d.post_process) THEN st
        ELSE IF "delete" \notin DOMAIN d.post_process[k]
        THEN PostProcess(st, mi, i, k + 1, out)
        ELSE LET path == Join(model_base_path, d.post_process[k].delete)
                 cat2 == [st.cat EXCEPT ![mi].download[i].post_process[k].delete = path]
             IN  The({PostProcess(st1, mi, i, k + 1, out) :
                        st1 \in {WithFs([st EXCEPT !.cat = cat2],
                                        IF out.perm THEN RmTree(st.fs, path)
                                        ELSE Ok(st.fs))}})

\* lines 270-288: a git step.  The clone makes a directory under file_path,
\* named here by the URL it is cloned from.
StepGit(mi, i, st, file_path, out) ==
    LET d == st.cat[mi].download[i]
        repo == AbsPath(Join(file_path, <<st.url.tmpl>>))
        st1 == [st EXCEPT !.fetched = @ \cup {st.url}]
        Cloned(st2) ==
            IF "post_process" \in DOMAIN d
            THEN PostProcess(st2, mi, i, 1, out) ELSE st2
        Made(m) ==
            IF m.exc # "None" THEN WithFs(st, m)
            ELSE IF out.err # "None" \/ repo \in DOMAIN m.fs
            THEN WithFs(st1, Raise(m.fs, "GitCommandError"))
            ELSE The({Cloned(st2) :
                        st2 \in {WithFs(st1, Ok([q \in DOMAIN m.fs \cup {repo} |->
                                            IF q = repo THEN Dir ELSE m.fs[q]]))}})
    IN  IF st.url = UnboundUrl THEN Failed(st, "UnboundLocalError")
        ELSE The({Made(m) : m \in {MakeDirs(st.fs, file_path)}})

\* lines 289-292: a plain fetch, skipped when the file is there and the model
\* is not tainted
StepFetch(model_name, st, file_path, taint, out) ==
    IF ~check_file_available(st.fs, file_path) \/ InList(model_name, taint)
    THEN IF st.url = UnboundUrl THEN Failed(st, "UnboundLocalError")
         ELSE WithFs([st EXCEPT !.fetched = @ \cup {st.url}],
                     download_file(st.fs, st.url, file_path, out))
    ELSE st

\* lines 227-292: one pass of the loop
ModelStep(model_name, i, st, taint, auth, out) ==
    LET mi == IndexOf(st.cat, model_name)
        d == get_model_download(st.cat, model_name)[i]
        Assigned(file_path, st1) ==
            IF st1.exc # "None" THEN st1
            ELSE IF "manual" \in DOMAIN d
            THEN IF st1.url = UnboundUrl \/ st1.dpath = UnboundPath
                    \/ st1.dname = UnboundStr
                 THEN Failed(st1, "UnboundLocalError") ELSE st1
            ELSE IF "file_content" \in DOMAIN d THEN StepFileContent(d, st1)
            ELSE IF "symlink" \in DOMAIN d THEN StepSymlink(d, st1)
            ELSE IF "git" \in DOMAIN d THEN StepGit(mi, i, st1, file_path, out)
            ELSE StepFetch(model_name, st1, file_path, taint, out)
        Located(p) ==
            IF p.exc # "None" THEN Failed(st, p.exc)
            ELSE The({Assigned(Join(model_base_path, p.path), st1) :
                        st1 \in {StepLocals(d, st, auth)}})
    IN  The({Located(p) :
                p \in {StepFilePath(d, get_model_files(st.cat, model_name), i)}})

RECURSIVE ModelSteps(_, _, _, _, _, _)
ModelSteps(model_name, i, st, taint, auth, net) ==
    IF st.exc # "None" \/ i > Len(get_model_download(st.cat, model_name)) THEN st
    ELSE The({ModelSteps(model_name, i + 1, st1, taint, auth, net) :
                st1 \in {ModelStep(model_name, i, st, taint, auth, net[i])}})

\* what a call works on and leaves: the disk, the model catalog, the three
\* lists, the URLs requested so far, and the value returned or the exception
Now ==
    [fs |-> fs, cat |-> models, avail |-> available_models,
     taint |-> tainted_models, deps |-> available_dependencies,
     fetched |-> {}, res |-> "True"]

\* lines 220-298: download_model as a whole, from the state s: the disk, the
\* catalog and the lists it leaves, the value it returns or the exception
\* that leaves it
DownloadModelFrom(s, model_name, net) ==
    LET same == [s EXCEPT !.res = "True"]
        Validated(ran, st, v) ==
            IF v # "True" THEN [ran EXCEPT !.res = v]
            ELSE [ran EXCEPT
                    !.taint = IF InList(model_name, s.taint)
                              THEN ListRemove(s.taint, model_name) ELSE @,
                    !.deps = ScanDependencies(st.fs),
                    !.avail = ScanModels(st.cat, st.fs),
                    !.res = InitResult(hf_auth)]
        Ran(ran, st) ==
            IF st.exc # "None" THEN [ran EXCEPT !.res = st.exc]
            ELSE The({Validated(ran, st, v) :
                        v \in {validate_model(st.cat, st.fs, model_name)}})
        Looped(st) ==
            The({Ran(ran, st) :
                    ran \in {[same EXCEPT !.fs = st.fs, !.cat = st.cat,
                                          !.fetched = @ \cup st.fetched]}})
    IN  IF InList(model_name, s.avail) THEN same
        ELSE IF ~Has(s.cat, model_name) THEN [same EXCEPT !.res = "KeyError"]
        ELSE The({Looped(st) :
                    st \in {ModelSteps(model_name, 1, LoopStart(s.fs, s.cat),
                                       s.taint, hf_auth, net)}})

DownloadModelRun(model_name, net) == DownloadModelFrom(Now, model_name, net)

\* the steps of the call that can reach the network
StepsOf(cat, avail, name) ==
    IF Has(cat, name) /\ ~InList(name, avail)
    THEN 1..Len(Get(cat, name).download) ELSE {}

download_model(model_name, outcomes) ==
    \E net \in [StepsOf(models, available_models, model_name) -> outcomes] :
    \E r \in {DownloadModelRun(model_name, net)} :
        /\ fs' = r.fs
        /\ models' = r.cat
        /\ available_models' = r.avail
        /\ tainted_models' = r.taint
        /\ available_dependencies' = r.deps
        /\ ret' = Called("download_model", model_name, r.res, r.fetched)
        /\ UNCHANGED <<dependencies, loaded_models, hf_auth, environ,
                       model_base_path, cwd>>

(***************************************************************************)
(* set_authentication                                                      *)
(***************************************************************************)
\* a set_authentication without its guard: no credentials clear the stored ones
SetAuthentication_Unguarded(old, env, new) ==
    IF ~Truthy(new) THEN [auth |-> new, env |-> env, res |-> "None"]
    ELSE IF "password" \notin DOMAIN new.d
    THEN [auth |-> new, env |-> env, res |-> "TypeError"]
    ELSE [auth |-> new, env |-> new.d["password"], res |-> "None"]
\* lines 81-87: hf_auth, the environment variable and the exception, if any
SetAuthentication(old, env, new) ==
    IF ~Truthy(new) /\ Truthy(old)
    THEN [auth |-> old, env |-> env, res |-> "None"]
    ELSE IF ~Truthy(new) THEN [auth |-> new, env |-> env, res |-> "None"]
    ELSE IF "password" \notin DOMAIN new.d
    THEN [auth |-> new, env |-> env, res |-> "TypeError"]
    ELSE [auth |-> new, env |-> new.d["password"], res |-> "None"]

set_authentication(new) ==
    LET r == SetAuthentication(hf_auth, environ, new)
    IN  /\ hf_auth' = r.auth
        /\ environ' = r.env
        /\ ret' = [Called("set_authentication", "", r.res, {}) EXCEPT !.args = new]
        /\ UNCHANGED <<models, dependencies, available_models, tainted_models,
                       available_dependencies, loaded_models, model_base_path,
                       cwd, fs>>

(***************************************************************************)
(* Zip archives.  A file is an archive when its content is the magic byte  *)
(* followed by the number of one of the archives below; an archive maps    *)
(* the relative paths of its members to nodes.                             *)
(***************************************************************************)
ZipMagic == 80
Archives ==
    << \* the layout the unzip step expects: D-main/D with a file in it
       (<<"D-main">> :> Dir) @@ (<<"D-main", "D">> :> Dir)
           @@ (<<"D-main", "D", "c.bin">> :> File(<<1>>)),
       \* another layout
       (<<"E-main">> :> Dir) @@ (<<"E-main", "e.bin">> :> File(<<1>>)) >>
Zip(k) == <<ZipMagic, k>>
IsZip(c) == Len(c) = 2 /\ c[1] = ZipMagic /\ c[2] \in 1..Len(Archives)

\* zipfile.ZipFile(zip_path).extractall(dest)
ExtractAll(f, zip_path, dest) ==
    LET arch == Archives[ReadFile(f, zip_path)[2]]
        at(q) == AbsPath(dest \o q)
        new == {at(q) : q \in DOMAIN arch}
        Made(m) ==
            IF m.exc # "None" THEN m
            ELSE IF \E q \in DOMAIN arch :
                        at(q) \in DOMAIN m.fs /\ m.fs[at(q)].kind # arch[q].kind
            THEN Raise(m.fs, "FileExistsError")
            ELSE Ok([a \in DOMAIN m.fs \cup new |->
                        IF a \in new THEN arch[CHOOSE q \in DOMAIN arch : at(q) = a]
                        ELSE m.fs[a]])
    IN  IF ~IsFile(f, zip_path) THEN Raise(f, "FileNotFoundError")
        ELSE IF ~IsZip(ReadFile(f, zip_path)) THEN Raise(f, "BadZipFile")
        ELSE The({Made(m) : m \in {MakeDirs(f, dest)}})

(***************************************************************************)
(* download_dependency                                                     *)
(***************************************************************************)
\* lines 313-319: the three locals after the step's assignments
DependencyLocals(d, st) ==
    [st EXCEPT
        !.url = IF "file_url" \in DOMAIN d THEN Url(d.file_url, "", "") ELSE @,
        !.dname = IF "file_name" \in DOMAIN d THEN d.file_name ELSE @,
        !.dpath = IF "file_path" \in DOMAIN d
                  THEN Join(model_base_path, d.file_path) ELSE @]

\* lines 334-338: the move of the extracted directory and the clean-up
UnzipFinish(st, zip_path) ==
    LET main == model_base_path \o <<"temp", st.dname \o "-main">>
        Removed(rm) ==
            IF rm.exc # "None" THEN WithFs(st, rm)
            ELSE WithFs(st, RmTree(rm.fs, main))
        Moved(mv) ==
            IF mv.exc # "None" THEN WithFs(st, mv)
            ELSE The({Removed(rm) : rm \in {Remove(mv.fs, zip_path)}})
    IN  The({Moved(mv) : mv \in {Move(st.fs, main \o <<st.dname>>, st.dpath)}})

\* lines 321-338: an unzip step
StepUnzip(st, out) ==
    LET zip_path == Join(model_base_path, <<"temp", st.dname \o ".zip">>)
        st1 == [st EXCEPT !.fetched = @ \cup {st.url}]
        Extracted(ex) ==
            IF ex.exc # "None" THEN WithFs(st1, ex)
            ELSE IF st.dpath = UnboundPath
            THEN WithFs(st1, Raise(ex.fs, "UnboundLocalError"))
            ELSE UnzipFinish(WithFs(st1, ex), zip_path)
        Fetched(dl) ==
            IF dl.exc # "None" THEN WithFs(st1, dl)
            ELSE The({Extracted(ex) : ex \in {ExtractAll(dl.fs, zip_path, <<"temp">>)}})
        Made(m) ==
            IF m.exc # "None" THEN WithFs(st, m)
            ELSE IF st.url = UnboundUrl
            THEN WithFs(st, Raise(m.fs, "UnboundLocalError"))
            ELSE The({Fetched(dl) :
                        dl \in {download_file(m.fs, st.url, zip_path, out)}})
    IN  The({Made(m) : m \in {MakeDirs(st.fs, Join(model_base_path, <<"temp">>))}})

\* lines 339-342: a plain fetch, skipped when the file is there
StepDependencyFetch(st, file_path, out) ==
    IF ~check_file_available(st.fs, file_path)
    THEN IF st.url = UnboundUrl THEN Failed(st, "UnboundLocalError")
         ELSE WithFs([st EXCEPT !.fetched = @ \cup {st.url}],
                     download_file(st.fs, st.url, file_path, out))
    ELSE st

\* lines 311-342: one pass of the loop, for a step that is not a git step
DependencyStep(dependency_name, i, st, out) ==
    LET d == get_dependency_download(dependency_name)[i]
        files == get_dependency_files(dependency_name)
        Assigned(st1) ==
            IF st1.dname = UnboundStr THEN Failed(st1, "UnboundLocalError")
            ELSE IF "unzip" \in DOMAIN d THEN StepUnzip(st1, out)
            ELSE StepDependencyFetch(st1, Join(model_base_path, files[i].path), out)
    IN  IF i > Len(files) THEN Failed(st, "IndexError")
        ELSE The({Assigned(st1) : st1 \in {DependencyLocals(d, st)}})

\* lines 306-342: the loop; a git step ends it
RECURSIVE DependencySteps(_, _, _, _)
DependencySteps(dependency_name, i, st, net) ==
    IF st.exc # "None" \/ i > Len(get_dependency_download(dependency_name)) THEN st
    ELSE IF "git" \in DOMAIN get_dependency_download(dependency_name)[i] THEN st
    ELSE The({DependencySteps(dependency_name, i + 1, st1, net) :
                st1 \in {DependencyStep(dependency_name, i, st, net[i])}})

\* lines 300-344: download_dependency as a whole, from the state s
DownloadDependencyFrom(s, dependency_name, net) ==
    LET same == [s EXCEPT !.res = "True"]
        Looped(st) ==
            IF st.exc # "None"
            THEN [same EXCEPT !.fs = st.fs, !.fetched = @ \cup st.fetched,
                              !.res = st.exc]
            ELSE [same EXCEPT
                    !.fs = st.fs, !.fetched = @ \cup st.fetched,
                    !.deps = ScanDependencies(st.fs),
                    !.avail = ScanModels(s.cat, st.fs),
                    !.res = InitResult(hf_auth)]
    IN  IF InList(dependency_name, s.deps) THEN same
        ELSE IF ~Has(dependencies, dependency_name) THEN [same EXCEPT !.res = "KeyError"]
        ELSE The({Looped(st) :
                    st \in {DependencySteps(dependency_name, 1,
                                            LoopStart(s.fs, s.cat), net)}})

DownloadDependencyRun(dependency_name, net) ==
    DownloadDependencyFrom(Now, dependency_name, net)

download_dependency(dependency_name, outcomes) ==
    \E net \in [StepsOf(dependencies, available_dependencies, dependency_name)
                    -> outcomes] :
    \E r \in {DownloadDependencyRun(dependency_name, net)} :
        /\ fs' = r.fs
        /\ available_models' = r.avail
        /\ available_dependencies' = r.deps
        /\ ret' = Called("download_dependency", dependency_name, r.res, r.fetched)
        /\ UNCHANGED <<models, dependencies, tainted_models, loaded_models,
                       hf_auth, environ, model_base_path, cwd>>

(***************************************************************************)
(* download_all_models, download_all_dependencies.  nets gives, for each   *)
(* name of the catalog, what the remote answers to each step of its        *)
(* recipe.                                                                 *)
(***************************************************************************)
\* get_filtered_model_names(download_all=True): the names of the entries
\* whose metadata has download_all set to True
get_filtered_model_names(cat) ==
    SelectSeq(Keys(cat), LAMBDA m :
        "download_all" \in DOMAIN Get(cat, m) /\ Get(cat, m).download_all = TRUE)

\* check_model_available
check_model_available(cat, f, model_name) ==
    Has(cat, model_name) /\ check_available(f, get_model_files(cat, model_name))
\* check_dependency_available
check_dependency_available(f, dependency_name) ==
    /\ Has(dependencies, dependency_name)
    /\ check_available(f, get_dependency_files(dependency_name))

\* the call left with an exception, not with a value
IsRaised(res) == res \notin {"True", "False", "None"}

\* lines 347-353: the loop of download_all_models over the names left
RECURSIVE DownloadAllModelsFrom(_, _, _)
DownloadAllModelsFrom(s, names, nets) ==
    LET Downloaded(s1) ==
            IF IsRaised(s1.res) THEN s1
            ELSE DownloadAllModelsFrom(s1, Tail(names), nets)
    IN  IF names = <<>> THEN [s EXCEPT !.res = "True"]
        ELSE IF check_model_available(s.cat, s.fs, Head(names))
        THEN DownloadAllModelsFrom(s, Tail(names), nets)
        ELSE The({Downloaded(s1) :
                    s1 \in {DownloadModelFrom(s, Head(names), nets[Head(names)])}})

\* lines 356-362: the loop of download_all_dependencies
RECURSIVE DownloadAllDependenciesFrom(_, _, _)
DownloadAllDependenciesFrom(s, names, nets) ==
    LET Downloaded(s1) ==
            IF IsRaised(s1.res) THEN s1
            ELSE DownloadAllDependenciesFrom(s1, Tail(names), nets)
    IN  IF names = <<>> THEN [s EXCEPT !.res = "True"]
        ELSE IF check_dependency_available(s.fs, Head(names))
        THEN DownloadAllDependenciesFrom(s, Tail(names), nets)
        ELSE The({Downloaded(s1) :
                    s1 \in {DownloadDependencyFrom(s, Head(names),
                                                   nets[Head(names)])}})

\* the answers to every step of every recipe of a catalog
StepsMax(cat) ==
    CHOOSE n \in 0..8 :
        /\ \A i \in 1..Len(cat) : Len(cat[i].download) <= n
        /\ n = 0 \/ \E i \in 1..Len(cat) : Len(cat[i].download) = n
Nets(cat, outcomes) == [SeqToSet(Keys(cat)) -> [1..StepsMax(cat) -> outcomes]]

download_all_models(outcomes) ==
    \E nets \in Nets(models, outcomes) :
    \E r \in {DownloadAllModelsFrom(Now, get_filtered_model_names(models), nets)} :
        /\ fs' = r.fs
        /\ models' = r.cat
        /\ available_models' = r.avail
        /\ tainted_models' = r.taint
        /\ available_dependencies' = r.deps
        /\ ret' = [Called("download_all_models", "", r.res, r.fetched)
                      EXCEPT !.args = nets]
        /\ UNCHANGED <<dependencies, loaded_models, hf_auth, environ,
                       model_base_path, cwd>>

download_all_dependencies(outcomes) ==
    \E nets \in Nets(dependencies, outcomes) :
    \E r \in {DownloadAllDependenciesFrom(Now, Keys(dependencies), nets)} :
        /\ fs' = r.fs
        /\ available_models' = r.avail
        /\ available_dependencies' = r.deps
        /\ ret' = [Called("download_all_dependencies", "", r.res, r.fetched)
                      EXCEPT !.args = nets]
        /\ UNCHANGED <<models, dependencies, tainted_models, loaded_models,
                       hf_auth, environ, model_base_path, cwd>>

(***************************************************************************)
(* The registry of loaded models: an ordered dict, a sequence of entries   *)
(* with the name as the key.                                               *)
(***************************************************************************)
\* self.loaded_models[name] = value
DictSet_Replacing(d, name, value) == << [name |-> name, value |-> value] >>
DictSet(d, name, value) ==
    IF \E i \in 1..Len(d) : d[i].name = name
    THEN [i \in 1..Len(d) |->
            IF d[i].name = name THEN [name |-> name, value |-> value] ELSE d[i]]
    ELSE Append(d, [name |-> name, value |-> value])
\* del self.loaded_models[name]
DictDel(d, name) == SelectSeq(d, LAMBDA e : e.name # name)

\* torch.device(f"cuda:{gpu_id}") if device == "cuda" else torch.device("cpu")
TorchDevice(device, gpu_id) ==
    IF device = "cuda" THEN [type |-> "cuda", index |-> gpu_id]
    ELSE [type |-> "cpu", index |-> -1]

\* nataili.modules.blip_decoder: the runtime object the loader builds
blip_decoder(pretrained, image_size, vit) ==
    [pretrained |-> pretrained, image_size |-> image_size, vit |-> vit,
     half |-> FALSE, device |-> TorchDevice("cpu", 0)]

\* BLIPModelManager.__call__: the registry and the value returned
Call(d, model_name, precision, device, gpu_id, blip_image_eval_size) ==
    LET vit == IF model_name = "BLIP" THEN "base" ELSE "large"
        dev == TorchDevice(device, gpu_id)
        files == get_model_files(models, model_name)
        model == [blip_decoder(files[1].path, blip_image_eval_size, vit) EXCEPT
                    !.half = (precision # "fp32"), !.device = dev]
    IN  IF ~Has(models, model_name) THEN [loaded |-> d, res |-> "KeyError"]
        ELSE IF files = <<>> THEN [loaded |-> d, res |-> "IndexError"]
        ELSE [loaded |-> DictSet(d, model_name, [model |-> model, device |-> dev]),
              res |-> "True"]

call(model_name, precision, device, gpu_id, blip_image_eval_size) ==
    LET r == Call(loaded_models, model_name, precision, device, gpu_id,
                  blip_image_eval_size)
    IN  /\ loaded_models' = r.loaded
        /\ ret' = [Called("__call__", model_name, r.res, {}) EXCEPT
                      !.args = [precision |-> precision, device |-> device,
                                gpu_id |-> gpu_id]]
        /\ UNCHANGED <<models, dependencies, available_models, tainted_models,
                       available_dependencies, hf_auth, environ, model_base_path,
                       cwd, fs>>

unload_model(model_name) ==
    /\ loaded_models' = DictDel(loaded_models, model_name)
    /\ ret' = Called("unload_model", model_name,
                     IF \E i \in 1..Len(loaded_models) :
                            loaded_models[i].name = model_name
                     THEN "True" ELSE "False", {})
    /\ UNCHANGED <<models, dependencies, available_models, tainted_models,
                   available_dependencies, hf_auth, environ, model_base_path,
                   cwd, fs>>

\* lines 153-156: the loop deletes the first key; asking the iterator for the
\* next one then raises, because the dict changed size
UnloadAll(d) ==
    IF d = <<>> THEN [loaded |-> d, res |-> "True"]
    ELSE [loaded |-> DictDel(d, d[1].name), res |-> "RuntimeError"]

unload_all_models ==
    /\ loaded_models' = UnloadAll(loaded_models).loaded
    /\ ret' = Called("unload_all_models", "", UnloadAll(loaded_models).res, {})
    /\ UNCHANGED <<models, dependencies, available_models, tainted_models,
                   available_dependencies, hf_auth, environ, model_base_path,
                   cwd, fs>>

(***************************************************************************)
(* Somebody else changes the disk: writes a file (making its directory),   *)
(* or deletes a file or a directory with all that is in it.                *)
(***************************************************************************)
disk_write(path, content) ==
    \E m \in {MakeDirs(fs, DirName(AbsPath(path)))} :
    \E w \in {WriteFile(m.fs, path, content)} :
        /\ m.exc = "None" /\ w.exc = "None"
        /\ w.fs # fs
        /\ fs' = w.fs
        /\ ret' = Called("disk", "", "None", {})
        /\ UNCHANGED <<models, dependencies, available_models, tainted_models,
                       available_dependencies, loaded_models, hf_auth, environ,
                       model_base_path, cwd>>

disk_delete(path) ==
    /\ AbsPath(path) \in DOMAIN fs
    /\ fs' = IF fs[AbsPath(path)].kind = "dir" THEN RmTree(fs, path).fs
             ELSE Remove(fs, path).fs
    /\ ret' = Called("disk", "", "None", {})
    /\ UNCHANGED <<models, dependencies, available_models, tainted_models,
                   available_dependencies, loaded_models, hf_auth, environ,
                   model_base_path, cwd>>

(***************************************************************************)
(* taint_models                                                            *)
(***************************************************************************)
RECURSIVE TaintedAll(_, _, _)
TaintedAll(avail, taint, names) ==
    IF names = <<>> THEN [avail |-> avail, taint |-> taint]
    ELSE LET t == Tainted(avail, taint, Head(names))
         IN  TaintedAll(t.avail, t.taint, Tail(names))

taint_models(names) ==
    /\ Len(tainted_models) + Len(names) <= MaxTaint
    /\ LET t == TaintedAll(available_models, tainted_models, names)
       IN  /\ available_models' = t.avail
           /\ tainted_models' = t.taint
    /\ ret' = Called("taint_models", "", "None", {})
    /\ UNCHANGED <<models, dependencies, available_dependencies, loaded_models,
                   hf_auth, environ, model_base_path, cwd, fs>>

(***************************************************************************)
(* The manager of the models M and N.  M is one file with a checksum,      *)
(* fetched from a plain URL to file_path/file_name; N is one file without  *)
(* a checksum, fetched to the path of its file entry.                      *)
(***************************************************************************)
Good == <<1>>
Bad == <<2>>

ModelM ==
    [name |-> "M", type |-> "ckpt",
     files |-> << [path |-> <<"models", "m.bin">>, md5sum |-> "5"] >>,
     download |-> << [file_name |-> "m.bin", file_path |-> <<"models">>,
                      file_url |-> "http://x/m.bin"] >>]

ModelN ==
    [name |-> "N", type |-> "ckpt",
     files |-> << [path |-> <<"models", "n.bin">>] >>,
     download |-> << [file_url |-> "http://x/n.bin"] >>]

\* where the manager's directory and the working directory are: the process
\* runs in the manager's directory, or somewhere else
Home == <<"/", "nataili">>
Work == <<"/", "work">>
Places ==
    { [base |-> Home, cwd |-> Home],
      [base |-> Home, cwd |-> Work] }

\* lines 49-58: the manager as __init__ leaves it
Constructed(place, auth) ==
    /\ available_models = <<>>
    /\ tainted_models = <<>>
    /\ available_dependencies = <<>>
    /\ loaded_models = <<>>
    /\ hf_auth = SetAuthentication(None, Unset, auth).auth
    /\ environ = SetAuthentication(None, Unset, auth).env
    /\ model_base_path = place.base
    /\ cwd = place.cwd
    /\ ret = [op |-> "__init__", arg |-> "", res |-> "None", fetched |-> {},
              args |-> auth, prev |-> ""]

\* lines 57-58: the disk with the working directory and the manager's directory
BareDisk(place) == MakeDirs(MakeDirs((<<"/">> :> Dir), place.cwd).fs, place.base).fs
\* a file that is not there
Absent == <<-1>>
\* the disk f with the file p of content c, when c is a content
Put(f, p, c) ==
    IF c = Absent THEN f
    ELSE The({WriteFile(m.fs, p, c).fs : m \in {MakeDirs(f, DirName(AbsPath(p)))}})

Init ==
    /\ models = <<ModelM, ModelN>>
    /\ dependencies = <<>>
    /\ \E place \in Places : Constructed(place, None) /\ fs = BareDisk(place)

\* what the remote may answer to a request
Answers == {Outcome("None", Good), Outcome("None", Bad),
            Outcome("ConnectionError", <<>>)}
\* the files somebody else may write or delete: a model's files under the
\* base path, and the files of the same relative paths in the working directory
BasePaths(entry) ==
    {Join(model_base_path, entry.files[k].path) : k \in 1..Len(entry.files)}
CwdPaths(entry) == {entry.files[k].path : k \in 1..Len(entry.files)}

Next ==
    \/ init
    \/ \E n \in {"M", "N"} : taint_model(n)
    \/ \E names \in {<<>>, <<"M", "N">>, <<"M", "M">>} : taint_models(names)
    \/ download_model("M", Answers)
    \/ download_model("N", {Outcome("None", Good), Outcome("ConnectionError", <<>>)})
    \/ \E p \in BasePaths(ModelM) \cup CwdPaths(ModelM), c \in {Good, Bad} :
          disk_write(p, c)
    \/ disk_write(Join(model_base_path, <<"models", "n.bin">>), Good)
    \/ \E p \in BasePaths(ModelM) \cup CwdPaths(ModelM) \cup BasePaths(ModelN) :
          disk_delete(p)

Spec == Init /\ [][Next]_vars

(***************************************************************************)
(* Validation on its own: the model V has one file, with or without a      *)
(* declared checksum; the file under the base path and the file of the     *)
(* same relative path in the working directory hold any content or are     *)
(* missing.  The digest of <<1>> is "5", and so is that of <<0, 0>>; that  *)
(* of <<1, 1>> is "b"; no digest is "B".                                   *)
(***************************************************************************)
Bytes == {0, 1}
Contents == UNION {[1..n -> Bytes] : n \in 0..MaxLen}
NoSum == ""
Sums == {NoSum, "5", "b", "B"}
VPath == <<"models", "v.bin">>
ModelV(sum) ==
    [name |-> "V", type |-> "ckpt",
     files |-> << IF sum = NoSum THEN [path |-> VPath]
                  ELSE [path |-> VPath, md5sum |-> sum] >>,
     download |-> <<>>]

validate_file_call(file_details) ==
    /\ ret' = Called("validate_file", "", validate_file(fs, file_details), {})
    /\ UNCHANGED <<models, dependencies, available_models, tainted_models,
                   available_dependencies, loaded_models, hf_auth, environ,
                   model_base_path, cwd, fs>>

validate_model_call(model_name) ==
    /\ Has(models, model_name)
    /\ ret' = Called("validate_model", model_name,
                     validate_model(models, fs, model_name), {})
    /\ UNCHANGED <<models, dependencies, available_models, tainted_models,
                   available_dependencies, loaded_models, hf_auth, environ,
                   model_base_path, cwd, fs>>

InitValid ==
    /\ \E sum \in Sums : models = <<ModelV(sum)>>
    /\ dependencies = <<>>
    /\ \E place \in Places :
          /\ Constructed(place, None)
          /\ \E inBase \in Contents \cup {Absent},
                inCwd \in Contents \cup {Absent} :
                \E bare \in {BareDisk(place)} :
                    \E disk \in {Put(bare, VPath, inCwd)} :
                        fs = Put(disk, Join(place.base, VPath), inBase)

NextValid ==
    \/ validate_file_call(models[1].files[1])
    \/ validate_model_call("V")

SpecValid == InitValid /\ [][NextValid]_vars

(***************************************************************************)
(* The credentials on their own: the model A is one file without a         *)
(* checksum, fetched with the credentials.                                 *)
(***************************************************************************)
ModelA ==
    [name |-> "A", type |-> "ckpt",
     files |-> << [path |-> <<"models", "a.bin">>] >>,
     download |-> << [file_url |-> "http://{username}:{password}@x/a.bin",
                      hf_auth |-> TRUE] >>]

\* the dicts with any of the keys username and password, empty or not
AuthDicts ==
    UNION { [ks -> {"", "s"}] : ks \in SUBSET {"username", "password"} }
AuthArgs == {None} \cup {Some(d) : d \in AuthDicts}

InitAuth ==
    /\ models = <<ModelA>>
    /\ dependencies = <<>>
    /\ \E auth \in AuthArgs :
          /\ SetAuthentication(None, Unset, auth).res = "None"
          /\ Constructed([base |-> Home, cwd |-> Home], auth)
    /\ fs = BareDisk([base |-> Home, cwd |-> Home])

NextAuth ==
    \/ \E a \in AuthArgs : set_authentication(a)
    \/ init
    \/ download_model("A", {Outcome("None", Good), Outcome("ConnectionError", <<>>)})
    \/ disk_delete(Join(model_base_path, <<"models", "a.bin">>))

SpecAuth == InitAuth /\ [][NextAuth]_vars

(***************************************************************************)
(* The dependencies on their own: D is fetched as a zip and unpacked, G is *)
(* a git recipe followed by a plain fetch, P is a plain fetch.             *)
(***************************************************************************)
DepD ==
    [name |-> "D", type |-> "",
     files |-> << [path |-> <<"lib", "D">>] >>,
     download |-> << [file_name |-> "D", file_path |-> <<"lib", "D">>,
                      file_url |-> "http://x/D.zip", unzip |-> TRUE] >>]
DepG ==
    [name |-> "G", type |-> "",
     files |-> << [path |-> <<"lib", "G">>], [path |-> <<"lib", "g2.bin">>] >>,
     download |-> << [git |-> TRUE, file_name |-> "G",
                      file_url |-> "http://x/G.git"],
                     [file_name |-> "g2.bin", file_url |-> "http://x/g2.bin"] >>]
DepP ==
    [name |-> "P", type |-> "",
     files |-> << [path |-> <<"lib", "p.bin">>] >>,
     download |-> << [file_name |-> "p.bin", file_url |-> "http://x/p.bin"] >>]

InitDep ==
    /\ models = <<>>
    /\ dependencies = <<DepD, DepG, DepP>>
    /\ \E place \in Places : Constructed(place, None) /\ fs = BareDisk(place)

\* what was left of an earlier unpacking of D under the base path
Leftover == model_base_path \o <<"temp", "D-main", "D", "old.bin">>

NextDep ==
    \/ init
    \/ download_dependency("D", {Outcome("None", Zip(1)), Outcome("None", Zip(2)),
                                 Outcome("None", Good),
                                 Outcome("ConnectionError", <<>>)})
    \/ download_dependency("G", {Outcome("None", Good)})
    \/ download_dependency("P", {Outcome("None", Good),
                                 Outcome("ConnectionError", <<>>)})
    \/ disk_write(Leftover, Bad)
    \/ \E p \in {<<"lib", "D">>, <<"lib", "p.bin">>} :
          disk_delete(Join(model_base_path, p))

SpecDep == InitDep /\ [][NextDep]_vars

(***************************************************************************)
(* The registry on its own: the manager of the captioning models BLIP and  *)
(* BLIP_Large, one file each.                                              *)
(***************************************************************************)
ModelBlip(name, file) ==
    [name |-> name, type |-> "blip",
     files |-> << [path |-> <<"models", file>>] >>,
     download |-> << [file_name |-> file, file_path |-> <<"models">>,
                      file_url |-> "http://x/" \o file] >>]

InitReg ==
    /\ models = <<ModelBlip("BLIP", "blip.pth"), ModelBlip("BLIP_Large", "large.pth")>>
    /\ dependencies = <<>>
    /\ Constructed([base |-> Home, cwd |-> Work], None)
    /\ fs = BareDisk([base |-> Home, cwd |-> Work])

\* blip_image_eval_size: int = 512
ImageSize == 512
CallArgs ==
    { [precision |-> "fp32", device |-> "cuda", gpu_id |-> 0],
      [precision |-> "fp16", device |-> "cpu", gpu_id |-> 0] }

NextReg ==
    \/ init
    \/ taint_model("BLIP")
    \/ download_model("BLIP", {Outcome("None", Good), Outcome("ConnectionError", <<>>)})
    \/ \E n \in {"BLIP", "BLIP_Large", "unknown"}, a \in CallArgs :
          call(n, a.precision, a.device, a.gpu_id, ImageSize)
    \/ \E n \in {"BLIP", "BLIP_Large"} : unload_model(n)
    \/ unload_all_models

SpecReg == InitReg /\ [][NextReg]_vars

(***************************************************************************)
(* The scan on its own: the models M (one file) and X (a diffusers model,  *)
(* whose file list the manager takes to be empty), the dependencies G (two *)
(* files) and P (one file), on a disk where any of their files is written  *)
(* and deleted between the calls.                                          *)
(***************************************************************************)
ModelX ==
    [name |-> "X", type |-> "diffusers",
     files |-> << [path |-> <<"models", "x.bin">>] >>,
     download |-> <<>>]

InitScan ==
    /\ models = <<ModelM, ModelX>>
    /\ dependencies = <<DepG, DepP>>
    /\ \E place \in Places : Constructed(place, None) /\ fs = BareDisk(place)

ScanPaths == BasePaths(ModelM) \cup BasePaths(DepG) \cup BasePaths(DepP)

NextScan ==
    \/ init
    \/ taint_model("M")
    \/ download_model("M", {Outcome("None", Good)})
    \/ download_dependency("P", {Outcome("None", Good)})
    \/ \E p \in ScanPaths : disk_write(p, Good)
    \/ \E p \in ScanPaths : disk_delete(p)
    \/ \E n \in {"M", "X", "unknown"} : get_model_call(n)
    \/ \E n \in {"G", "P", "unknown"} : get_dependency_call(n)

SpecScan == InitScan /\ [][NextScan]_vars

(***************************************************************************)
(* Repeated downloads: the manager of M runs in its own directory, on a    *)
(* disk where M's file is missing, good or stale from the start; the       *)
(* remote serves the content the checksum declares, and download_model is  *)
(* called again and again.                                                 *)
(***************************************************************************)
InitHeal ==
    /\ models = <<ModelM, ModelN>>
    /\ dependencies = <<>>
    /\ Constructed([base |-> Home, cwd |-> Home], None)
    /\ \E c \in {Absent, Good, Bad} :
       \E bare \in {BareDisk([base |-> Home, cwd |-> Home])} :
          fs = Put(bare, Join(Home, <<"models", "m.bin">>), c)

NextHeal ==
    \/ init
    \/ \E n \in {"M", "N"} : taint_model(n)
    \/ download_model("M", {Outcome("None", Good)})
    \/ download_model("N", {Outcome("None", Good)})

SpecHeal ==
    /\ InitHeal
    /\ [][NextHeal]_vars
    /\ WF_vars(download_model("M", {Outcome("None", Good)}))

(***************************************************************************)
(* Downloading everything: the model L is flagged download_all, the model  *)
(* N is not; the dependencies are P (one plain fetch) and Q (another).     *)
(***************************************************************************)
ModelL ==
    [name |-> "L", type |-> "ckpt", download_all |-> TRUE,
     files |-> << [path |-> <<"models", "l.bin">>, md5sum |-> "5"] >>,
     download |-> << [file_name |-> "l.bin", file_path |-> <<"models">>,
                      file_url |-> "http://x/l.bin"] >>]
DepQ ==
    [name |-> "Q", type |-> "",
     files |-> << [path |-> <<"lib", "q.bin">>] >>,
     download |-> << [file_name |-> "q.bin", file_url |-> "http://x/q.bin"] >>]

InitAll ==
    /\ models = <<ModelL, ModelN>>
    /\ dependencies = <<DepP, DepQ>>
    /\ Constructed([base |-> Home, cwd |-> Home], None)
    /\ fs = BareDisk([base |-> Home, cwd |-> Home])

AllPaths ==
    BasePaths(ModelL) \cup BasePaths(ModelN) \cup BasePaths(DepP)
        \cup BasePaths(DepQ)

NextAll ==
    \/ init
    \/ download_all_models({Outcome("None", Good), Outcome("ConnectionError", <<>>)})
    \/ download_all_dependencies({Outcome("None", Good),
                                  Outcome("ConnectionError", <<>>)})
    \/ download_model("N", {Outcome("None", Good)})
    \/ \E p \in AllPaths : disk_delete(p)

SpecAll == InitAll /\ [][NextAll]_vars

(***************************************************************************)
(* The registry next to the rest of the manager: the captioning models,    *)
(* the dependency P and the credentials, with every operation that is not  *)
(* a registration or an unloading.                                         *)
(***************************************************************************)
InitFrame ==
    /\ models = <<ModelBlip("BLIP", "blip.pth"), ModelBlip("BLIP_Large", "large.pth")>>
    /\ dependencies = <<DepP>>
    /\ Constructed([base |-> Home, cwd |-> Home], None)
    /\ fs = BareDisk([base |-> Home, cwd |-> Home])

NextFrame ==
    \/ init
    \/ taint_model("BLIP")
    \/ download_model("BLIP", {Outcome("None", Good)})
    \/ download_dependency("P", {Outcome("None", Good)})
    \/ \E a \in {None, Some([username |-> "s", password |-> "s"])} :
          set_authentication(a)
    \/ \E n \in {"BLIP", "BLIP_Large"} :
          call(n, "fp32", "cpu", 0, ImageSize)
    \/ \E n \in {"BLIP", "BLIP_Large"} : unload_model(n)
    \/ unload_all_models

SpecFrame == InitFrame /\ [][NextFrame]_vars

(***************************************************************************)
(* What the claims speak of.                                               *)
(***************************************************************************)
\* every required file of the entry exists under the base path as a file whose
\* content has the digest the entry declares for it
FilesValid(f, entry) ==
    \A k \in 1..Len(entry.files) :
        LET path == Join(model_base_path, entry.files[k].path)
        IN  /\ IsFile(f, path)
            /\ "md5sum" \in DOMAIN entry.files[k]
                   => FileDigest(ReadFile(f, path)) = entry.files[k].md5sum

\* some required file of the entry exists under the base path as a file whose
\* content does not have the declared digest
SomeFileStale(f, entry) ==
    \E k \in 1..Len(entry.files) :
        LET path == Join(model_base_path, entry.files[k].path)
        IN  /\ IsFile(f, path)
            /\ "md5sum" \in DOMAIN entry.files[k]
            /\ FileDigest(ReadFile(f, path)) # entry.files[k].md5sum

\* C1: no model name is in both available_models and tainted_models, in any
\* state reachable by init(), taint_model(), taint_models() and
\* download_model() calls.
C1_AvailableTaintedDisjoint ==
    \A n \in SeqToSet(Keys(models)) :
        ~(InList(n, available_models) /\ InList(n, tainted_models))

\* C2: a download_model(name) that returns True right after taint_model(name)
\* leaves name in available_models and not in tainted_models.
C2_TaintThenDownload ==
    [][(/\ ret.op = "taint_model"
        /\ ret'.op = "download_model"
        /\ ret'.arg = ret.arg
        /\ ret'.res = "True")
       => (/\ InList(ret.arg, available_models')
           /\ ~InList(ret.arg, tainted_models'))]_vars

\* C3: download_model(name) on an entry whose required files all exist under
\* the base path with matching checksums returns True, requests no URL and
\* leaves the disk as it was.
C3_ValidFilesNoOp ==
    [][(/\ ret'.op = "download_model"
        /\ Has(models, ret'.arg)
        /\ FilesValid(fs, Get(models, ret'.arg)))
       => (/\ ret'.res = "True"
           /\ ret'.fetched = {}
           /\ fs' = fs)]_vars

\* C4: when the file of a plain-fetch model exists with content that does not
\* match the declared checksum, download_model requests the URL only if the
\* model is tainted; if it is not tainted, nothing is requested, the call
\* returns False and the model is not in available_models afterwards.
C4_StaleFile ==
    [][(/\ ret'.op = "download_model"
        /\ ret'.arg = "M"
        /\ SomeFileStale(fs, ModelM))
       => (/\ ret'.fetched # {} => InList("M", tainted_models)
           /\ ~InList("M", tainted_models)
                 => (/\ ret'.fetched = {}
                     /\ ret'.res = "False"
                     /\ ~InList("M", available_models')))]_vars

\* C5: a init() right after a init(), with nothing in between, leaves
\* available_models, available_dependencies and tainted_models as the first
\* call left them.
C5_InitIdempotent ==
    [][(ret.op = "init" /\ ret'.op = "init")
       => (/\ available_models' = available_models
           /\ available_dependencies' = available_dependencies
           /\ tainted_models' = tainted_models)]_vars

\* C5's case: init() was called twice in a row and found models on the disk
C5_Witness ==
    /\ ret.op = "init" /\ ret.prev = "init"
    /\ available_models # <<>>
    /\ tainted_models # <<>>

\* C6: validate_file returns True exactly when the file entry declares no
\* checksum or the content of the entry's file under the base path has the
\* declared digest, and validate_model returns True exactly when every
\* required file exists there and validates.
C6_Validation ==
    /\ (/\ ret.op = "validate_file"
        /\ IsFile(fs, Join(model_base_path, VPath)))
       => (ret.res = "True" <=> FilesValid(fs, models[1]))
    /\ ret.op = "validate_model"
       => (ret.res = "True" <=> FilesValid(fs, Get(models, ret.arg)))

\* C7: once credentials are stored, only a set_authentication call with
\* credentials changes hf_auth or the environment variable; a call with None or
\* an empty dict leaves both as they were.
C7_CredentialsKept ==
    [][Truthy(hf_auth)
       => (/\ (ret'.op = "set_authentication" /\ ~Truthy(ret'.args))
                 => (hf_auth' = hf_auth /\ environ' = environ)
           /\ (hf_auth' # hf_auth \/ environ' # environ)
                 => (ret'.op = "set_authentication" /\ Truthy(ret'.args)))]_vars

\* C7's case: set_authentication was called without credentials while
\* credentials, with their password in the environment, were stored
C7_Witness ==
    /\ ret.op = "set_authentication"
    /\ ~Truthy(ret.args)
    /\ Truthy(hf_auth)
    /\ environ # Unset

\* the directory dest holds the subdirectory name-main/name of one of the
\* archives: every member of it, with its content
HoldsExtracted(f, name, dest) ==
    \E k \in 1..Len(Archives) :
        LET sub == <<name \o "-main", name>>
            members == {q \in DOMAIN Archives[k] : IsPrefix(sub, q) /\ q # sub}
            at(q) == dest \o SubSeq(q, Len(sub) + 1, Len(q))
        IN  /\ members # {}
            /\ \A q \in members : at(q) \in DOMAIN f /\ f[at(q)] = Archives[k][q]

\* C8: when download_dependency has run the unzip step of D and returned,
\* D's destination under the base path holds the extracted subdirectory, and
\* neither the zip <base>/temp/D.zip nor the directory <base>/temp/D-main is
\* there any more.
C8_UnzipCleansUp ==
    (/\ ret.op = "download_dependency"
     /\ ret.arg = "D"
     /\ ret.res = "True"
     /\ ret.fetched # {})
    => (/\ IsDir(fs, Join(model_base_path, <<"lib", "D">>))
        /\ HoldsExtracted(fs, "D", Join(model_base_path, <<"lib", "D">>))
        /\ ~PathExists(fs, Join(model_base_path, <<"temp", "D.zip">>))
        /\ ~PathExists(fs, Join(model_base_path, <<"temp", "D-main">>)))

\* the entry the registry d holds for name
Loaded(d, name) == (CHOOSE i \in 1..Len(d) : d[i].name = name)

C10_UnloadAllClears ==
    ret.op = "unload_all_models" => (ret.res = "True" /\ loaded_models = <<>>)

\* every file of the list is there under the base path: a file, a directory,
\* or a link to one
AllThere(f, files) ==
    \A k \in 1..Len(files) :
        LET a == model_base_path \o files[k].path
        IN  /\ a \in DOMAIN f
            /\ f[a].kind = "link"
                  => (f[a].target \in DOMAIN f /\ f[f[a].target].kind # "link")

\* C11: after a init() that returns, available_models lists, once each, the
\* models of the catalog whose files are all there under the base path, and
\* available_dependencies the dependencies whose files are all there,
\* whatever the two lists held before.
C11_InitExact ==
    [][(ret'.op = "init" /\ ret'.res = "True")
       => (/\ \A i \in 1..Len(models) :
                 Count(available_models', models[i].name)
                    = IF AllThere(fs', get_model_files(models, models[i].name))
                      THEN 1 ELSE 0
           /\ \A i \in 1..Len(dependencies) :
                 Count(available_dependencies', dependencies[i].name)
                    = IF AllThere(fs', dependencies[i].files) THEN 1 ELSE 0
           /\ SeqToSet(available_models') \subseteq SeqToSet(Keys(models))
           /\ SeqToSet(available_dependencies')
                 \subseteq SeqToSet(Keys(dependencies)))]_vars

\* C11's case: init() ran after the disk changed under lists that no longer
\* matched it, and found some entries there and others missing
C11_Witness ==
    /\ ret.op = "init" /\ ret.res = "True" /\ ret.prev = "disk"
    /\ InList("P", available_dependencies)
    /\ ~InList("G", available_dependencies)
    /\ ~InList("M", available_models)
    /\ InList("M", tainted_models)

\* the credentials hold a username and a password, neither of them empty
WellFormed(auth) ==
    /\ "username" \in DOMAIN auth.d /\ auth.d["username"] # ""
    /\ "password" \in DOMAIN auth.d /\ auth.d["password"] # ""

\* C12: with credentials configured, init() returns True when they hold a
\* username and a password, both non-empty, and raises ValueError otherwise.
C12_CredentialCheck ==
    (ret.op = "init" /\ ~hf_auth.none)
    => (ret.res = IF WellFormed(hf_auth) THEN "True" ELSE "ValueError")

\* C13: get_model and get_dependency return the entry of a name that is in
\* the catalog, and raise a not-found error (KeyError) for one that is not.
C13_LookupNotFound ==
    /\ ret.op = "get_model"
          => IF Has(models, ret.arg)
             THEN ret.res = "entry" /\ ret.args = Get(models, ret.arg)
             ELSE ret.res = "KeyError"
    /\ ret.op = "get_dependency"
          => IF Has(dependencies, ret.arg)
             THEN ret.res = "entry" /\ ret.args = Get(dependencies, ret.arg)
             ELSE ret.res = "KeyError"

\* C14: whenever M's file is on disk with content that fails the checksum,
\* repeated download_model("M") calls eventually fetch the file again and
\* return True with the file valid.
C14_SelfHeals ==
    SomeFileStale(fs, ModelM)
        ~> (/\ ret.op = "download_model" /\ ret.arg = "M"
            /\ ret.res = "True"
            /\ FilesValid(fs, ModelM))

\* every answer of nets is the whole body, with the content the checksums
\* declare
AllGood(nets) ==
    \A n \in DOMAIN nets : \A i \in DOMAIN nets[n] : nets[n][i] = Outcome("None", Good)

\* C15: when every fetch succeeds with matching content, download_all_models
\* returns True with every model of the catalog available, its files there,
\* and download_all_dependencies returns True with every dependency of the
\* catalog available.
C15_DownloadAll ==
    /\ (ret.op = "download_all_models" /\ AllGood(ret.args))
          => (/\ ret.res = "True"
              /\ \A i \in 1..Len(models) :
                    /\ InList(models[i].name, available_models)
                    /\ AllThere(fs, models[i].files))
    /\ (ret.op = "download_all_dependencies" /\ AllGood(ret.args))
          => (/\ ret.res = "True"
              /\ \A i \in 1..Len(dependencies) :
                    /\ InList(dependencies[i].name, available_dependencies)
                    /\ AllThere(fs, dependencies[i].files))

\* C16: a git step of download_dependency ends that step only: when the call
\* returns, the steps after the git step have run, so that the file the next
\* step of G fetches is there.
C16_GitStepSkipped ==
    (ret.op = "download_dependency" /\ ret.arg = "G" /\ ret.res = "True")
    => IsFile(fs, Join(model_base_path, <<"lib", "g2.bin">>))

\* the operations that register or unload
RegistryOps == {"__call__", "unload_model", "unload_all_models"}

\* C17: init, taint_model, download_model, download_dependency and
\* set_authentication leave every loaded entry as it was, and loaded_models
\* changes in a registration, an unload_model or an unload_all_models only.
C17_LoadedFrame ==
    [][/\ ret'.op \in {"init", "taint_model", "download_model",
                       "download_dependency", "set_authentication"}
            => loaded_models' = loaded_models
       /\ loaded_models' # loaded_models => ret'.op \in RegistryOps]_vars

\* a taint and a download of a loaded model leave the two loaded entries
C17_Witness ==
    /\ Len(loaded_models) = 2
    /\ ret.op = "download_model" /\ ret.arg = "BLIP" /\ ret.res = "True"
    /\ ret.fetched # {}

\* C18: in the state a download_model(name) that returned True leaves, every
\* required file of name is under the base path with the declared checksum,
\* whatever happened to the disk since the last init().
C18_TrueMeansValid ==
    (ret.op = "download_model" /\ ret.res = "True" /\ Has(models, ret.arg))
    => FilesValid(fs, Get(models, ret.arg))

\* C19: no name is in tainted_models twice.
C19_TaintedOnce ==
    \A i, j \in 1..Len(tainted_models) :
        tainted_models[i] = tainted_models[j] => i = j

\* C20: in the state a download_dependency(name) that returned True leaves,
\* name is in available_dependencies and its required files are under the
\* base path.
C20_TrueMeansAvailable ==
    (ret.op = "download_dependency" /\ ret.res = "True"
        /\ Has(dependencies, ret.arg))
    => (/\ InList(ret.arg, available_dependencies)
        /\ AllThere(fs, Get(dependencies, ret.arg).files))

\* C21: a init() that raises on the credentials leaves available_models and
\* available_dependencies as they were before the call.
C21_InitFailureKeepsLists ==
    [][(ret'.op = "init" /\ ret'.res # "True")
       => (/\ available_models' = available_models
           /\ available_dependencies' = available_dependencies)]_vars

====
